---- MODULE Spec2Model ----
(***************************************************************************)
(* Model of go-mockdns: the zone store of a Server, its mutation calls     *)
(* (AppendRR, RemoveRR, AddZone, Reset, Close), the wire handler ServeDNS  *)
(* and the Resolver's combined address lookup.                             *)
(*                                                                         *)
(* A Go string that the code inspects (a domain name, the rrData text of   *)
(* an MX or SRV record, a TXT value) is a sequence of one-character        *)
(* strings, so that ToLower, Fqdn, HasSuffix, SplitN, Atoi and splitTXT    *)
(* are computed on the characters.  Strings the code only copies (IP       *)
(* address text) are atoms.                                                *)
(*                                                                         *)
(* Calls are taken one at a time, each as one step (the handler and the    *)
(* mutation calls run under the store lock).  req / reply hold the         *)
(* exchange of the ServeDNS call on record, call the name of the           *)
(* in-process call on record, ret the error it returned and hosts the      *)
(* result of a LookupHost; Return forgets the call on record.              *)
(*                                                                         *)
(* Where calls run concurrently (SpecLock) each is a thread that takes its *)
(* steps one at a time: mu is the store lock and th the position and the   *)
(* local variables of every thread.                                        *)
(***************************************************************************)
EXTENDS Integers, Sequences, FiniteSets, TLC

VARIABLES Zones, Authoritative, stopped, req, reply, ret, call, hosts, mu, th

vars == <<Zones, Authoritative, stopped, req, reply, ret, call, hosts, mu, th>>

(***************************************************************************)
(* Bounds                                                                  *)
(***************************************************************************)
\* AppendRR is taken only while the store holds fewer records than this.
MaxRecords == 1

\* The longest CNAME chain the properties quantify over.
MaxHops == 3

(***************************************************************************)
(* Protocol constants (github.com/miekg/dns)                               *)
(***************************************************************************)
TypeA == 1
TypeNS == 2
TypeCNAME == 5
TypeSOA == 6
TypePTR == 12
TypeMX == 15
TypeTXT == 16
TypeAAAA == 28
TypeSRV == 33
TypeTLSA == 52
TypeSPF == 99

ClassINET == 1
ClassCHAOS == 3

OpcodeQuery == 0
OpcodeNotify == 4

RcodeSuccess == 0
RcodeServerFailure == 2
RcodeNameError == 3
RcodeNotImplemented == 4
RcodeRefused == 5

Ttl == 9999
Uint16 == 65536

(***************************************************************************)
(* Strings                                                                 *)
(***************************************************************************)
EmptyStr == <<>>

LowerCh(c) ==
  CASE c = "F" -> "f"
    [] c = "B" -> "b"
    [] c = "E" -> "e"
    [] OTHER -> c

\* strings.ToLower
ToLower(s) == [i \in 1..Len(s) |-> LowerCh(s[i])]

\* strings.HasSuffix(s, ".")
HasSuffixDot(s) == Len(s) > 0 /\ s[Len(s)] = "."

\* dns.Fqdn
Fqdn(s) == IF HasSuffixDot(s) THEN s ELSE Append(s, ".")

(***************************************************************************)
(* Zone                                                                    *)
(***************************************************************************)
NoMisc == <<>>

ZeroZone ==
  [Err |-> FALSE, A |-> <<>>, AAAA |-> <<>>, TXT |-> <<>>, PTR |-> <<>>,
   CNAME |-> EmptyStr, MX |-> <<>>, NS |-> <<>>, SRV |-> <<>>, Misc |-> NoMisc]

\* Go map read: the zero Zone when the key is absent.
ZoneAt(Z, name) == IF name \in DOMAIN Z THEN Z[name] ELSE ZeroZone

\* rzone.Misc[dns.Type(q.Qtype)]: nil for a nil map or a missing key.
MiscAt(zone, t) == IF t \in DOMAIN zone.Misc THEN zone.Misc[t] ELSE <<>>

isZoneEmpty(zone) ==
  /\ Len(zone.A) = 0
  /\ Len(zone.AAAA) = 0
  /\ Len(zone.TXT) = 0
  /\ Len(zone.PTR) = 0
  /\ zone.CNAME = EmptyStr
  /\ Len(zone.MX) = 0
  /\ Len(zone.NS) = 0
  /\ Len(zone.SRV) = 0
  /\ DOMAIN zone.Misc = {}

(***************************************************************************)
(* Resolver: the CNAME-chain walk, as the lookup algorithm of the design   *)
(* document (section 4.2) states it.                                       *)
(***************************************************************************)
NoErr == [kind |-> "nil", name |-> EmptyStr]

\* notFound(name): a *net.DNSError with IsNotFound set, carrying the name.
notFound(name) == [kind |-> "notfound", name |-> name]

\* A zone's configured Err, or the failure of a chain that loops.
otherErr(kind, name) == [kind |-> kind, name |-> name]

RECURSIVE walk(_, _, _, _, _)
walk(Z, current, chain, visited, field) ==
  IF current \notin DOMAIN Z
    THEN [cnames |-> chain, rname |-> current, vals |-> <<>>,
          err |-> notFound(current)]
  ELSE IF Z[current].Err
    THEN [cnames |-> chain, rname |-> current, vals |-> <<>>,
          err |-> otherErr("zone", current)]
  ELSE IF Z[current].CNAME # EmptyStr /\ Len(Z[current][field]) = 0
    THEN IF Z[current].CNAME \in visited
           THEN [cnames |-> chain, rname |-> current, vals |-> <<>>,
                 err |-> otherErr("loop", current)]
           ELSE walk(Z, Z[current].CNAME, Append(chain, Z[current].CNAME),
                     visited \cup {Z[current].CNAME}, field)
  ELSE IF Len(Z[current][field]) # 0
    THEN [cnames |-> chain, rname |-> current, vals |-> Z[current][field],
          err |-> NoErr]
  ELSE [cnames |-> chain, rname |-> current, vals |-> <<>>,
        err |-> notFound(current)]

\* lookupA, lookupAAAA, lookupMX, lookupNS, lookupSRV, lookupTXT
lookup(Z, name, field) ==
  walk(Z, ToLower(Fqdn(name)), <<>>, {ToLower(Fqdn(name))}, field)

\* LookupHost as it would be if it failed as soon as one family is empty.
LookupHost_bothNeeded(Z, host) ==
  LET a == lookup(Z, host, "A")
      aaaa == lookup(Z, host, "AAAA")
  IN  IF a.err.kind # "nil" THEN [addrs |-> <<>>, err |-> a.err]
      ELSE IF aaaa.err.kind # "nil" THEN [addrs |-> <<>>, err |-> aaaa.err]
      ELSE [addrs |-> a.vals \o aaaa.vals, err |-> NoErr]

\* LookupHost, LookupIP and LookupNetIP with network "ip": both families are
\* looked up and merged; a configured error of either fails the call, and
\* NotFound is returned only when neither family has records.
LookupHost(Z, host) ==
  LET a == lookup(Z, host, "A")
      aaaa == lookup(Z, host, "AAAA")
  IN  IF a.err.kind \notin {"nil", "notfound"}
        THEN [addrs |-> <<>>, err |-> a.err]
      ELSE IF aaaa.err.kind \notin {"nil", "notfound"}
        THEN [addrs |-> <<>>, err |-> aaaa.err]
      ELSE IF a.err.kind = "notfound" /\ aaaa.err.kind = "notfound"
        THEN [addrs |-> <<>>, err |-> notFound(host)]
      ELSE [addrs |-> a.vals \o aaaa.vals, err |-> NoErr]

(***************************************************************************)
(* Resource records and messages                                           *)
(***************************************************************************)
RR(name, rrtype, data) ==
  [Name |-> name, Rrtype |-> rrtype, Class |-> ClassINET, Ttl |-> Ttl,
   Data |-> data]

\* The placeholder SOA of writeErr and of the SOA case.
mkSOA(name) ==
  RR(name, TypeSOA,
     [Ns |-> "localhost.", Mbox |-> "hostmaster.localhost.", Serial |-> 1,
      Refresh |-> 900, Retry |-> 900, Expire |-> 1800, Minttl |-> 60])

mkCname(name, cname) == RR(name, TypeCNAME, [Target |-> cname])

\* appendCNAMEs as it would be if the loop stopped one alias short.
appendCNAMEs_short(answer, cnames, rname) ==
  answer \o [i \in 1..(Len(cnames) - 1) |->
               mkCname(IF i = 1 THEN rname ELSE cnames[i - 1], cnames[i])]

RECURSIVE appendCNAMEs(_, _, _)
appendCNAMEs(answer, cnames, rname) ==
  IF cnames = <<>> THEN answer
  ELSE appendCNAMEs(Append(answer, mkCname(rname, Head(cnames))),
                    Tail(cnames), Head(cnames))

maxLen == 255

Min(i, j) == IF i < j THEN i ELSE j

splitTXT(s) ==
  [k \in 1..((Len(s) \div maxLen) + 1) |->
     SubSeq(s, (k - 1) * maxLen + 1, Min(Len(s), k * maxLen))]

NilIP == "nil"

\* net.ParseIP on the address texts used here.
ParseIP(addr) ==
  CASE addr = "1.2.3.4" -> "ip:1.2.3.4"
    [] addr = "::ffff:1.2.3.4" -> "ip:1.2.3.4"
    [] addr = "::1" -> "ip:::1"
    [] OTHER -> NilIP

NoReply ==
  [Kind |-> "none", Rcode |-> RcodeSuccess, Authoritative |-> FALSE,
   RecursionAvailable |-> FALSE, Answer |-> <<>>, Ns |-> <<>>]

\* new(dns.Msg) followed by SetReply / SetRcode, which leave the
\* Authoritative and RecursionAvailable bits alone.
SetRcode(msg, rcode) == [msg EXCEPT !.Kind = "msg", !.Rcode = rcode]

SetReply(msg) == SetRcode(msg, RcodeSuccess)

\* ServeDNS panicked: no message is written.
Panic == [NoReply EXCEPT !.Kind = "panic"]

\* writeErr as it would be with the answer section cleared on every error.
writeErr_clearAnswer(msg, err) ==
  IF err.kind = "notfound"
    THEN [msg EXCEPT !.Rcode = RcodeNameError,
                     !.RecursionAvailable = TRUE,
                     !.Answer = <<>>,
                     !.Ns = <<mkSOA(err.name)>>]
    ELSE [msg EXCEPT !.Rcode = RcodeServerFailure,
                     !.RecursionAvailable = FALSE,
                     !.Answer = <<>>]

writeErr(msg, err) ==
  IF err.kind = "notfound"
    THEN [msg EXCEPT !.Rcode = RcodeNameError,
                     !.RecursionAvailable = TRUE,
                     !.Ns = <<mkSOA(err.name)>>]
    ELSE [msg EXCEPT !.Rcode = RcodeServerFailure,
                     !.RecursionAvailable = FALSE]

(***************************************************************************)
(* ServeDNS                                                                *)
(***************************************************************************)
\* The record data built for one stored value in the A, AAAA, MX, NS, SRV
\* and TXT cases.
valueData(rrtype, v) ==
  CASE rrtype = TypeA -> [IP |-> ParseIP(v)]
    [] rrtype = TypeAAAA -> [IP |-> ParseIP(v)]
    [] rrtype = TypeMX -> [Preference |-> v.Pref, Mx |-> v.Host]
    [] rrtype = TypeNS -> [Ns |-> v.Host]
    [] rrtype = TypeSRV -> [Priority |-> v.Priority, Port |-> v.Port,
                            Weight |-> v.Weight, Target |-> v.Target]
    [] rrtype = TypeTXT -> [Txt |-> splitTXT(v)]

\* The tail shared by the A, AAAA, MX, NS, SRV and TXT cases: the chain is
\* put into the answer before the error is looked at, then one record per
\* value is appended under the name the lookup returned.
answerLookup(msg, res, rrtype) ==
  LET withChain == [msg EXCEPT !.Answer = appendCNAMEs(@, res.cnames, res.rname)]
  IN  IF res.err.kind # "nil"
        THEN writeErr(withChain, res.err)
        ELSE [withChain EXCEPT !.Answer =
                @ \o [i \in 1..Len(res.vals) |->
                        RR(res.rname, rrtype, valueData(rrtype, res.vals[i]))]]

\* The A and AAAA cases panic on an address that does not parse.
answerAddrs(msg, res, rrtype) ==
  IF res.err.kind = "nil" /\ \E i \in 1..Len(res.vals) : ParseIP(res.vals[i]) = NilIP
    THEN Panic
    ELSE answerLookup(msg, res, rrtype)

\* serveCNAME as it would be if the CNAME case walked on to the target's
\* own alias.
serveCNAME_follow(Z, msg, q) ==
  LET rname == ToLower(Fqdn(q.Name))
      next == ZoneAt(Z, ZoneAt(Z, rname).CNAME).CNAME
  IN  IF rname \notin DOMAIN Z THEN writeErr(msg, notFound(rname))
      ELSE IF Z[rname].CNAME = EmptyStr THEN writeErr(msg, notFound(rname))
      ELSE IF next = EmptyStr
        THEN [msg EXCEPT !.Answer = Append(@, mkCname(rname, Z[rname].CNAME))]
      ELSE [msg EXCEPT !.Answer =
              @ \o <<mkCname(rname, Z[rname].CNAME), mkCname(Z[rname].CNAME, next)>>]

serveCNAME(Z, msg, q) ==
  LET rname == ToLower(Fqdn(q.Name))
  IN  IF rname \notin DOMAIN Z THEN writeErr(msg, notFound(rname))
      ELSE IF Z[rname].CNAME = EmptyStr THEN writeErr(msg, notFound(rname))
      ELSE [msg EXCEPT !.Answer = Append(@, mkCname(rname, Z[rname].CNAME))]

servePTR(Z, msg, q) ==
  IF q.Name \notin DOMAIN Z THEN writeErr(msg, notFound(q.Name))
  ELSE [msg EXCEPT !.Answer =
          @ \o [i \in 1..Len(Z[q.Name].PTR) |->
                  RR(q.Name, TypePTR, [Ptr |-> Z[q.Name].PTR[i]])]]

\* The SOA case as it would be behind a check that the name has a zone.
serveSOA_precheck(msg, q) ==
  IF ToLower(Fqdn(q.Name)) \notin DOMAIN Zones
    THEN writeErr(msg, notFound(q.Name))
    ELSE [msg EXCEPT !.Answer = <<mkSOA(q.Name)>>]

serveSOA(msg, q) == [msg EXCEPT !.Answer = <<mkSOA(q.Name)>>]

serveMisc(Z, msg, q) ==
  IF q.Name \notin DOMAIN Z THEN writeErr(msg, notFound(q.Name))
  ELSE [msg EXCEPT !.Answer = @ \o MiscAt(Z[q.Name], q.Qtype)]

serveQuestion(Z, msg, q) ==
  LET qname == ToLower(Fqdn(q.Name))
  IN  CASE q.Qtype = TypeA -> answerAddrs(msg, lookup(Z, qname, "A"), TypeA)
        [] q.Qtype = TypeAAAA -> answerAddrs(msg, lookup(Z, q.Name, "AAAA"), TypeAAAA)
        [] q.Qtype = TypeMX -> answerLookup(msg, lookup(Z, q.Name, "MX"), TypeMX)
        [] q.Qtype = TypeNS -> answerLookup(msg, lookup(Z, q.Name, "NS"), TypeNS)
        [] q.Qtype = TypeSRV -> answerLookup(msg, lookup(Z, q.Name, "SRV"), TypeSRV)
        [] q.Qtype = TypeCNAME -> serveCNAME(Z, msg, q)
        [] q.Qtype = TypeTXT -> answerLookup(msg, lookup(Z, q.Name, "TXT"), TypeTXT)
        [] q.Qtype = TypePTR -> servePTR(Z, msg, q)
        [] q.Qtype = TypeSOA -> serveSOA(msg, q)
        [] OTHER -> serveMisc(Z, msg, q)

\* The header bits ServeDNS sets once the opcode has been accepted.
setFlags(msg, authoritative) ==
  IF authoritative
    THEN [msg EXCEPT !.Authoritative = TRUE, !.RecursionAvailable = FALSE]
    ELSE [msg EXCEPT !.RecursionAvailable = TRUE]

\* ServeDNS as it would be without the class check.
Respond_anyClass(Z, authoritative, m) ==
  IF m.Opcode # OpcodeQuery THEN SetRcode(NoReply, RcodeRefused)
  ELSE serveQuestion(Z, setFlags(SetReply(NoReply), authoritative), m.Question)

\* ServeDNS as it would be without the opcode check.
Respond_anyOpcode(Z, authoritative, m) ==
  IF m.Question.Qclass # ClassINET
    THEN SetRcode(setFlags(SetReply(NoReply), authoritative), RcodeNotImplemented)
  ELSE serveQuestion(Z, setFlags(SetReply(NoReply), authoritative), m.Question)

\* The message ServeDNS writes for request m.
Respond(Z, authoritative, m) ==
  IF m.Opcode # OpcodeQuery THEN SetRcode(NoReply, RcodeRefused)
  ELSE IF m.Question.Qclass # ClassINET
    THEN SetRcode(setFlags(SetReply(NoReply), authoritative), RcodeNotImplemented)
  ELSE serveQuestion(Z, setFlags(SetReply(NoReply), authoritative), m.Question)

(***************************************************************************)
(* Mutation calls                                                          *)
(***************************************************************************)
\* Index of the first " " in s, or 0.
IndexSpace(s) ==
  IF \E i \in 1..Len(s) : s[i] = " "
    THEN CHOOSE i \in 1..Len(s) : s[i] = " " /\ \A j \in 1..(i - 1) : s[j] # " "
    ELSE 0

\* strings.SplitN(s, " ", n) for n > 0
RECURSIVE SplitN(_, _)
SplitN(s, n) ==
  IF n = 1 \/ IndexSpace(s) = 0 THEN <<s>>
  ELSE <<SubSeq(s, 1, IndexSpace(s) - 1)>>
         \o SplitN(SubSeq(s, IndexSpace(s) + 1, Len(s)), n - 1)

Digits == <<"0", "1", "2", "3", "4", "5", "6", "7", "8", "9">>

IsDigit(c) == \E i \in 1..Len(Digits) : Digits[i] = c

DigitVal(c) == (CHOOSE i \in 1..Len(Digits) : Digits[i] = c) - 1

RECURSIVE DigitsVal(_)
DigitsVal(s) ==
  IF s = <<>> THEN 0
  ELSE DigitsVal(SubSeq(s, 1, Len(s) - 1)) * 10 + DigitVal(s[Len(s)])

\* strconv.Atoi: an optional sign, then one or more decimal digits.
Atoi(s) ==
  LET signed == Len(s) > 0 /\ s[1] \in {"+", "-"}
      body == IF signed THEN Tail(s) ELSE s
  IN  IF Len(body) = 0 \/ \E i \in 1..Len(body) : ~IsDigit(body[i])
        THEN [ok |-> FALSE, val |-> 0]
        ELSE [ok |-> TRUE,
              val |-> IF signed /\ s[1] = "-" THEN 0 - DigitsVal(body)
                      ELSE DigitsVal(body)]

\* The conversion uint16(x) of an int.
ToUint16(x) == x % Uint16

\* The name AppendRR and RemoveRR use as the store key.
keyOf(name) == IF ~HasSuffixDot(name) THEN Append(name, ".") ELSE name

\* s.r.Zones[name] = zone
StorePut(Z, name, zone) ==
  [n \in DOMAIN Z \cup {name} |-> IF n = name THEN zone ELSE Z[n]]

\* delete(s.r.Zones, name)
StoreDelete(Z, name) == [n \in DOMAIN Z \ {name} |-> Z[n]]

\* The zone AppendRR builds from the current one, and the error it returns.
appendToZone(zone, rrType, rrData) ==
  CASE rrType = TypeA -> [ok |-> TRUE, zone |-> [zone EXCEPT !.A = Append(@, rrData)]]
    [] rrType = TypeAAAA -> [ok |-> TRUE, zone |-> [zone EXCEPT !.AAAA = Append(@, rrData)]]
    [] rrType = TypeTXT -> [ok |-> TRUE, zone |-> [zone EXCEPT !.TXT = Append(@, rrData)]]
    [] rrType = TypePTR -> [ok |-> TRUE, zone |-> [zone EXCEPT !.PTR = Append(@, rrData)]]
    [] rrType = TypeCNAME -> [ok |-> TRUE, zone |-> [zone EXCEPT !.CNAME = rrData]]
    [] rrType = TypeMX ->
         LET parts == SplitN(rrData, 2)
         IN  IF Len(parts) # 2 \/ ~Atoi(parts[1]).ok
               THEN [ok |-> FALSE, zone |-> zone]
               ELSE [ok |-> TRUE,
                     zone |-> [zone EXCEPT !.MX = Append(@,
                       [Host |-> parts[2], Pref |-> ToUint16(Atoi(parts[1]).val)])]]
    [] rrType = TypeNS -> [ok |-> TRUE, zone |-> [zone EXCEPT !.NS = Append(@, [Host |-> rrData])]]
    [] rrType = TypeSRV ->
         LET parts == SplitN(rrData, 4)
         IN  IF Len(parts) # 4 \/ ~Atoi(parts[1]).ok \/ ~Atoi(parts[2]).ok
                  \/ ~Atoi(parts[3]).ok
               THEN [ok |-> FALSE, zone |-> zone]
               ELSE [ok |-> TRUE,
                     zone |-> [zone EXCEPT !.SRV = Append(@,
                       [Priority |-> ToUint16(Atoi(parts[1]).val),
                        Weight |-> ToUint16(Atoi(parts[2]).val),
                        Port |-> ToUint16(Atoi(parts[3]).val),
                        Target |-> parts[4]])]]
    [] OTHER -> [ok |-> FALSE, zone |-> zone]

\* The zone RemoveRR builds from the current one.
removeFromZone(zone, rrType) ==
  CASE rrType = TypeA -> [zone EXCEPT !.A = <<>>]
    [] rrType = TypeAAAA -> [zone EXCEPT !.AAAA = <<>>]
    [] rrType = TypeTXT -> [zone EXCEPT !.TXT = <<>>]
    [] rrType = TypePTR -> [zone EXCEPT !.PTR = <<>>]
    [] rrType = TypeCNAME -> [zone EXCEPT !.CNAME = EmptyStr]
    [] rrType = TypeMX -> [zone EXCEPT !.MX = <<>>]
    [] rrType = TypeNS -> [zone EXCEPT !.NS = <<>>]
    [] rrType = TypeSRV -> [zone EXCEPT !.SRV = <<>>]
    [] OTHER -> zone

(***************************************************************************)
(* Inputs                                                                  *)
(***************************************************************************)
nFoo == <<"f", ".">>
nFooUpper == <<"F", ".">>
nFooRel == <<"f">>
nBar == <<"b", ".">>
nEx == <<"e", ".">>
hostMx == <<"m", ".">>
hostNs == <<"n", ".">>
txtT == <<"t">>
txtU == <<"u">>

\* A record of a type the server has no case for, kept in Misc.
recTLSA == RR(nEx, TypeTLSA, [Certificate |-> "aaaaaa"])

\* Names as they arrive in a wire question: dot-terminated, case preserved.
QueryNames == {nFoo, nFooUpper, nBar, nEx}

QueryTypes ==
  {TypeA, TypeAAAA, TypeMX, TypeNS, TypeSRV, TypeCNAME, TypeTXT, TypePTR,
   TypeSOA, TypeTLSA, TypeSPF}

Question(name, qtype, qclass) == [Name |-> name, Qtype |-> qtype, Qclass |-> qclass]

Queries ==
  {[Opcode |-> OpcodeQuery, Question |-> Question(n, t, ClassINET)] :
      n \in QueryNames, t \in QueryTypes}
  \cup {[Opcode |-> OpcodeQuery, Question |-> Question(n, t, ClassCHAOS)] :
      n \in {nFoo, nEx}, t \in {TypeA, TypeTXT}}
  \cup {[Opcode |-> OpcodeNotify, Question |-> Question(n, t, ClassINET)] :
      n \in {nFoo, nEx}, t \in {TypeA, TypeSOA}}

MutationNames == {nFoo, nFooUpper, nFooRel, nBar, nEx}

MutationTypes ==
  {TypeA, TypeAAAA, TypeMX, TypeNS, TypeSRV, TypeCNAME, TypeTXT, TypePTR,
   TypeTLSA}

\* The rrData texts tried for each record type.
RRDataFor(rrType) ==
  CASE rrType = TypeA -> {"1.2.3.4"}
    [] rrType = TypeAAAA -> {"::1"}
    [] rrType = TypeTXT -> {txtT}
    [] rrType = TypePTR -> {nEx}
    [] rrType = TypeCNAME -> {nBar, nEx}
    [] rrType = TypeMX -> {<<"1", "0", " ", "m", ".">>, <<"m", ".">>}
    [] rrType = TypeNS -> {hostNs}
    [] rrType = TypeSRV -> {<<"1", " ", "2", " ", "8", "0", " ", "m", ".">>,
                            <<"1", " ", "x", " ", "8", "0", " ", "m", ".">>}
    [] OTHER -> {EmptyStr}

\* The maps a server is constructed with.
SeedEmpty == <<>>

SeedChain ==
  (nFoo :> [ZeroZone EXCEPT !.CNAME = nBar])
  @@ (nBar :> [ZeroZone EXCEPT !.CNAME = nEx])
  @@ (nEx :> [ZeroZone EXCEPT !.TXT = <<txtT, txtU>>,
                               !.MX = <<[Host |-> hostMx, Pref |-> 10]>>,
                               !.PTR = <<nFoo>>])

SeedErr ==
  (nFoo :> [ZeroZone EXCEPT !.CNAME = nBar])
  @@ (nBar :> [ZeroZone EXCEPT !.Err = TRUE, !.A = <<"1.2.3.4">>, !.CNAME = nEx,
                                !.PTR = <<nEx>>])
  @@ (nEx :> [ZeroZone EXCEPT !.A = <<"1.2.3.4">>])

SeedMisc ==
  (nEx :> [ZeroZone EXCEPT !.A = <<"1.2.3.4">>, !.AAAA = <<"::1">>,
                            !.Misc = (TypeTLSA :> <<recTLSA>>)])
  @@ (nBar :> ZeroZone)
  @@ (nFoo :> [ZeroZone EXCEPT !.PTR = <<nEx>>])

SeedDangling == (nFoo :> [ZeroZone EXCEPT !.CNAME = nBar])

Seeds == {SeedEmpty, SeedChain, SeedErr, SeedMisc, SeedDangling}

\* The names and zones AddZone is called with.
ZoneNames == {nFoo, nBar, nEx}

NewZones ==
  {[ZeroZone EXCEPT !.CNAME = nEx], [ZeroZone EXCEPT !.A = <<"::ffff:1.2.3.4">>]}

(***************************************************************************)
(* State machine                                                           *)
(***************************************************************************)
NoMsg == [Opcode |-> OpcodeQuery, Question |-> Question(EmptyStr, 0, 0)]

ZoneRecords(zone) ==
  Len(zone.A) + Len(zone.AAAA) + Len(zone.TXT) + Len(zone.PTR) + Len(zone.MX)
  + Len(zone.NS) + Len(zone.SRV) + (IF zone.CNAME = EmptyStr THEN 0 ELSE 1)

RECURSIVE SumRecords(_, _)
SumRecords(Z, names) ==
  IF names = {} THEN 0
  ELSE LET n == CHOOSE x \in names : TRUE
       IN  ZoneRecords(Z[n]) + SumRecords(Z, names \ {n})

RecordCount(Z) == SumRecords(Z, DOMAIN Z)

\* The zero sync.RWMutex: no writer and no reader holds it.
Unlocked == [writer |-> FALSE, readers |-> 0]

\* No concurrent caller.
NoThreads == <<>>

\* No in-process call on record, and no LookupHost result.
NoCall == "none"

NoHosts == [addrs |-> <<>>, err |-> [kind |-> "none", name |-> EmptyStr]]

\* NewServerWithLogger
Init ==
  /\ Zones \in Seeds
  /\ Authoritative \in BOOLEAN
  /\ stopped = FALSE
  /\ req = NoMsg
  /\ reply = NoReply
  /\ ret = "none"
  /\ call = NoCall
  /\ hosts = NoHosts
  /\ mu = Unlocked
  /\ th = NoThreads

\* No call is on record: the caller has taken the result of the last one.
Idle ==
  req = NoMsg /\ reply = NoReply /\ ret = "none" /\ call = NoCall
  /\ hosts = NoHosts

\* One request served; the listeners deliver none once Close has shut them
\* down.
ServeDNS(m) ==
  /\ Idle
  /\ ~stopped
  /\ req' = m
  /\ reply' = Respond(Zones, Authoritative, m)
  /\ UNCHANGED <<mu, th, Zones, Authoritative, stopped, ret, call, hosts>>

\* Resolver().LookupHost on the server's own store.
LookupHostCall(host) ==
  /\ Idle
  /\ call' = "LookupHost"
  /\ hosts' = LookupHost(Zones, host)
  /\ UNCHANGED <<mu, th, Zones, Authoritative, stopped, req, reply, ret>>

\* The whole of AppendRR: nothing is stored when the text is rejected.
AppendRRStep_storeFirst(name, rrType, rrData) ==
  LET res == appendToZone(ZoneAt(Zones, keyOf(name)), rrType, rrData)
  IN  /\ Idle
      /\ Zones' = StorePut(Zones, keyOf(name), res.zone)
      /\ ret' = IF res.ok THEN "nil" ELSE "error"
      /\ call' = "AppendRR"
      /\ UNCHANGED <<mu, th, Authoritative, stopped, req, reply, hosts>>

AppendRRStep(name, rrType, rrData) ==
  LET res == appendToZone(ZoneAt(Zones, keyOf(name)), rrType, rrData)
  IN  /\ Idle
      /\ Zones' = IF res.ok THEN StorePut(Zones, keyOf(name), res.zone) ELSE Zones
      /\ ret' = IF res.ok THEN "nil" ELSE "error"
      /\ call' = "AppendRR"
      /\ UNCHANGED <<mu, th, Authoritative, stopped, req, reply, hosts>>

AppendRR(name, rrType, rrData) ==
  /\ Idle
  /\ RecordCount(Zones) < MaxRecords
  /\ AppendRRStep(name, rrType, rrData)

RemoveRR(name, rrType) ==
  LET zone == removeFromZone(ZoneAt(Zones, keyOf(name)), rrType)
  IN  /\ Idle
      /\ Zones' = IF isZoneEmpty(zone) THEN StoreDelete(Zones, keyOf(name))
                  ELSE StorePut(Zones, keyOf(name), zone)
      /\ ret' = "nil"
      /\ call' = "RemoveRR"
      /\ UNCHANGED <<mu, th, Authoritative, stopped, req, reply, hosts>>

\* AddZone as it would be if it replaced the zone of a name already present.
addZone_overwrite(Z, name, zone) ==
  [ok |-> TRUE, Zones |-> StorePut(Z, ToLower(Fqdn(name)), zone)]

\* AddZone: an error, and no change, when the name already has a zone.
addZone(Z, name, zone) ==
  IF ToLower(Fqdn(name)) \in DOMAIN Z THEN [ok |-> FALSE, Zones |-> Z]
  ELSE [ok |-> TRUE, Zones |-> StorePut(Z, ToLower(Fqdn(name)), zone)]

AddZone(name, zone) ==
  LET res == addZone(Zones, name, zone)
  IN  /\ Idle
      /\ call' = "AddZone"
      /\ ~res.ok \/ RecordCount(Zones) + ZoneRecords(zone) <= MaxRecords
      /\ Zones' = res.Zones
      /\ ret' = IF res.ok THEN "nil" ELSE "error"
      /\ UNCHANGED <<mu, th, Authoritative, stopped, req, reply, hosts>>

\* The networks a patched net.Resolver may ask Dial for; "unix" stands for
\* any network the switch does not know.
Networks == {"udp", "tcp4", "unix"}

DialsUDP == {"udp", "udp4", "udp6"}
DialsTCP == {"tcp", "tcp4", "tcp6"}

dial_ignoreStopped(isStopped, network) ==
  IF network \in DialsUDP \cup DialsTCP THEN {"conn", "dialerr"} ELSE {"panic"}

\* The outcomes of the Dial function PatchNet installs: "error" is the
\* error returned before any connection is attempted, "conn" and
\* "dialerr" are the two outcomes of dialer.DialContext.
dial(isStopped, network) ==
  IF isStopped THEN {"error"}
  ELSE IF network \in DialsUDP \cup DialsTCP THEN {"conn", "dialerr"}
  ELSE {"panic"}

Dial(network) ==
  /\ Idle
  /\ call' = "Dial"
  /\ ret' \in dial(stopped, network)
  /\ UNCHANGED <<mu, th, Zones, Authoritative, stopped, req, reply, hosts>>

Reset_keepZones ==
  /\ Idle
  /\ Zones' = Zones
  /\ ret' = "nil"
  /\ call' = "Reset"
  /\ UNCHANGED <<mu, th, Authoritative, stopped, req, reply, hosts>>

Reset ==
  /\ Idle
  /\ Zones' = <<>>
  /\ ret' = "nil"
  /\ call' = "Reset"
  /\ UNCHANGED <<mu, th, Authoritative, stopped, req, reply, hosts>>

Close ==
  /\ Idle
  /\ stopped' = TRUE
  /\ ret' = "nil"
  /\ call' = "Close"
  /\ UNCHANGED <<mu, th, Zones, Authoritative, req, reply, hosts>>

\* The call on record is over; the next one starts from the same store.
Return ==
  /\ ~Idle
  /\ req' = NoMsg
  /\ reply' = NoReply
  /\ ret' = "none"
  /\ call' = NoCall
  /\ hosts' = NoHosts
  /\ UNCHANGED <<mu, th, Zones, Authoritative, stopped>>

Next ==
  \/ \E m \in Queries : ServeDNS(m)
  \/ \E host \in MutationNames : LookupHostCall(host)
  \/ \E name \in MutationNames, rrType \in MutationTypes :
       \E rrData \in RRDataFor(rrType) : AppendRR(name, rrType, rrData)
  \/ \E name \in MutationNames, rrType \in MutationTypes : RemoveRR(name, rrType)
  \/ \E name \in ZoneNames, zone \in NewZones : AddZone(name, zone)
  \/ \E network \in Networks : Dial(network)
  \/ Reset
  \/ Close
  \/ Return

Spec == Init /\ [][Next]_vars

(***************************************************************************)
(* The store under sequences of mutation calls: a server constructed       *)
(* without seed zones (as TestServer_MutateRR constructs it), called with  *)
(* names as a caller spells them and with numeric fields past 16 bits.     *)
(***************************************************************************)
\* AppendRR is taken here only while the store holds fewer records than this.
MaxStored == 2

StoreNames == {nFooRel, nFooUpper}

StoreDataFor(rrType) ==
  CASE rrType = TypeA -> {"1.2.3.4"}
    [] rrType = TypeAAAA -> {"::1"}
    [] rrType = TypeTXT -> {txtT, txtU}
    [] rrType = TypePTR -> {nEx}
    [] rrType = TypeCNAME -> {nBar, nEx}
    [] rrType = TypeMX -> {<<"1", "0", " ", "m", ".">>,
                           <<"6", "5", "5", "4", "6", " ", "m", ".">>,
                           <<"m", ".">>}
    [] rrType = TypeNS -> {hostNs}
    [] rrType = TypeSRV -> {<<"1", " ", "2", " ", "8", "0", " ", "m", ".">>,
                            <<"1", " ", "2", " ", "6", "5", "6", "1", "6", " ",
                              "m", ".">>,
                            <<"1", " ", "x", " ", "8", "0", " ", "m", ".">>}
    [] OTHER -> {EmptyStr}

StoreQueries ==
  {[Opcode |-> OpcodeQuery, Question |-> Question(n, t, ClassINET)] :
      n \in {nFoo, nFooUpper}, t \in QueryTypes}

\* NewServer(nil, true)
InitStore ==
  /\ Zones = <<>>
  /\ Authoritative = TRUE
  /\ stopped = FALSE
  /\ req = NoMsg
  /\ reply = NoReply
  /\ ret = "none"
  /\ call = NoCall
  /\ hosts = NoHosts
  /\ mu = Unlocked
  /\ th = NoThreads

AppendRRStore(name, rrType, rrData) ==
  /\ Idle
  /\ RecordCount(Zones) < MaxStored
  /\ AppendRRStep(name, rrType, rrData)

NextStore ==
  \/ \E m \in StoreQueries : ServeDNS(m)
  \/ \E host \in StoreNames : LookupHostCall(host)
  \/ \E name \in StoreNames, rrType \in MutationTypes :
       \E rrData \in StoreDataFor(rrType) : AppendRRStore(name, rrType, rrData)
  \/ \E name \in StoreNames, rrType \in MutationTypes : RemoveRR(name, rrType)
  \/ Reset
  \/ Return

SpecStore == InitStore /\ [][NextStore]_vars

(***************************************************************************)
(* Concurrent callers.  Two goroutines each make one mutation call, one    *)
(* goroutine of the DNS server handles one query in ServeDNS, and one      *)
(* goroutine makes one lookup on the Resolver that Server.Resolver()       *)
(* hands out.  Every acquisition of the lock, every read of the store,     *)
(* every write of it and the write of the response are steps of their own. *)
(***************************************************************************)
Writers == {"w1", "w2"}

Readers == {"serve", "lookup"}

\* sync.RWMutex: Lock waits for the writer and for every reader to leave,
\* RLock for the writer.
CanLock_free(m) == TRUE

CanLock(m) == ~m.writer /\ m.readers = 0

CanRLock(m) == ~m.writer

\* The store the concurrent callers start from: f. is an alias of b.
SeedLock ==
  (nFoo :> [ZeroZone EXCEPT !.CNAME = nBar])
  @@ (nBar :> [ZeroZone EXCEPT !.A = <<"1.2.3.4">>])

WCall(op, name, rrType, rrData, zone) ==
  [op |-> op, name |-> name, rrType |-> rrType, rrData |-> rrData,
   zone |-> zone]

\* The calls a writer goroutine makes.
AddCalls ==
  {WCall("AppendRR", nFooRel, TypeTXT, txtT, ZeroZone),
   WCall("AppendRR", nFooRel, TypeTXT, txtU, ZeroZone),
   WCall("AppendRR", nBar, TypeAAAA, "::1", ZeroZone),
   WCall("AddZone", nEx, 0, EmptyStr, [ZeroZone EXCEPT !.A = <<"::ffff:1.2.3.4">>])}

WriterCalls ==
  AddCalls
  \cup {WCall("RemoveRR", nBar, TypeA, EmptyStr, ZeroZone),
        WCall("Reset", EmptyStr, 0, EmptyStr, ZeroZone)}

\* The names looked up while the writers run.
LookupNames == {nFoo, nBar}

\* One iteration of the CNAME-chain walk: the zone of w.current is read
\* from Z and the walk ends there or moves on to the alias target.
NewWalk(name) ==
  [current |-> ToLower(Fqdn(name)), chain |-> <<>>,
   visited |-> {ToLower(Fqdn(name))}, vals |-> <<>>, err |-> NoErr,
   done |-> FALSE]

hop(Z, w, field) ==
  IF w.current \notin DOMAIN Z
    THEN [w EXCEPT !.err = notFound(w.current), !.done = TRUE]
  ELSE IF Z[w.current].Err
    THEN [w EXCEPT !.err = otherErr("zone", w.current), !.done = TRUE]
  ELSE IF Z[w.current].CNAME # EmptyStr /\ Len(Z[w.current][field]) = 0
    THEN IF Z[w.current].CNAME \in w.visited
           THEN [w EXCEPT !.err = otherErr("loop", w.current), !.done = TRUE]
           ELSE [w EXCEPT !.current = Z[w.current].CNAME,
                          !.chain = Append(@, Z[w.current].CNAME),
                          !.visited = @ \cup {Z[w.current].CNAME}]
  ELSE IF Len(Z[w.current][field]) # 0
    THEN [w EXCEPT !.vals = Z[w.current][field], !.done = TRUE]
  ELSE [w EXCEPT !.err = notFound(w.current), !.done = TRUE]

\* What the lookup returns once the walk is over.
walked(w) == [cnames |-> w.chain, rname |-> w.current, vals |-> w.vals, err |-> w.err]

NewWriter(c) == [pc |-> "start", call |-> c, zone |-> ZeroZone, ret |-> "none"]

NewReader(name) ==
  [pc |-> "start", name |-> name, w |-> NewWalk(name), holds |-> FALSE,
   bare |-> FALSE, snaps |-> {SeedLock}, reply |-> NoReply]

InitLock ==
  /\ Zones = SeedLock
  /\ Authoritative = TRUE
  /\ stopped = FALSE
  /\ req = NoMsg
  /\ reply = NoReply
  /\ ret = "none"
  /\ call = NoCall
  /\ hosts = NoHosts
  /\ mu = Unlocked
  /\ \E c1 \in WriterCalls, c2 \in WriterCalls, n1 \in LookupNames, n2 \in LookupNames :
       th = ("w1" :> NewWriter(c1)) @@ ("w2" :> NewWriter(c2))
            @@ ("serve" :> NewReader(n1)) @@ ("lookup" :> NewReader(n2))

\* s.mu.Lock()
WLock(t) ==
  /\ th[t].pc = "start"
  /\ CanLock(mu)
  /\ mu' = [mu EXCEPT !.writer = TRUE]
  /\ th' = [th EXCEPT ![t].pc = "locked"]
  /\ UNCHANGED <<Zones, Authoritative, stopped, req, reply, ret, call, hosts>>

\* zone := s.r.Zones[name]
WRead(t) ==
  /\ th[t].pc = "locked"
  /\ th' = [th EXCEPT ![t].pc = "read",
                      ![t].zone = ZoneAt(Zones, keyOf(th[t].call.name))]
  /\ UNCHANGED <<Zones, Authoritative, stopped, req, reply, ret, call, hosts, mu>>

\* The store a mutation call leaves, from the zone it read, and its error.
written(Z, c, zone) ==
  CASE c.op = "AppendRR" ->
         LET res == appendToZone(zone, c.rrType, c.rrData)
         IN  [Zones |-> IF res.ok THEN StorePut(Z, keyOf(c.name), res.zone) ELSE Z,
              ret |-> IF res.ok THEN "nil" ELSE "error"]
    [] c.op = "RemoveRR" ->
         LET left == removeFromZone(zone, c.rrType)
         IN  [Zones |-> IF isZoneEmpty(left) THEN StoreDelete(Z, keyOf(c.name))
                        ELSE StorePut(Z, keyOf(c.name), left),
              ret |-> "nil"]
    [] c.op = "AddZone" ->
         [Zones |-> addZone(Z, c.name, c.zone).Zones,
          ret |-> IF addZone(Z, c.name, c.zone).ok THEN "nil" ELSE "error"]
    [] OTHER -> [Zones |-> <<>>, ret |-> "nil"]

\* s.r.Zones[name] = zone, delete(s.r.Zones, name), s.r.Zones = make(...)
WWrite(t) ==
  LET out == written(Zones, th[t].call, th[t].zone)
  IN  /\ th[t].pc = "read"
      /\ Zones' = out.Zones
      /\ th' = [u \in DOMAIN th |->
                  IF u = t THEN [th[u] EXCEPT !.pc = "written", !.ret = out.ret]
                  ELSE IF u \in Readers /\ th[u].pc # "done"
                    THEN [th[u] EXCEPT !.snaps = @ \cup {out.Zones}]
                  ELSE th[u]]
      /\ UNCHANGED <<Authoritative, stopped, req, reply, ret, call, hosts, mu>>

\* defer s.mu.Unlock()
WUnlock(t) ==
  /\ th[t].pc = "written"
  /\ mu' = [mu EXCEPT !.writer = FALSE]
  /\ th' = [th EXCEPT ![t].pc = "done"]
  /\ UNCHANGED <<Zones, Authoritative, stopped, req, reply, ret, call, hosts>>

\* ServeDNS: s.mu.RLock()
SRLock ==
  /\ th["serve"].pc = "start"
  /\ CanRLock(mu)
  /\ mu' = [mu EXCEPT !.readers = @ + 1]
  /\ th' = [th EXCEPT !["serve"].pc = "walk", !["serve"].holds = TRUE]
  /\ UNCHANGED <<Zones, Authoritative, stopped, req, reply, ret, call, hosts>>

\* ServeDNS, TypeA case: one read of the store by lookupA; when the walk is
\* over the answer is built and handed to WriteMsg.
SHop ==
  LET w == hop(Zones, th["serve"].w, "A")
  IN  /\ th["serve"].pc = "walk"
      /\ th' = [th EXCEPT
                  !["serve"].w = w,
                  !["serve"].bare = @ \/ ~th["serve"].holds,
                  !["serve"].pc = IF w.done THEN "WriteMsg" ELSE "walk",
                  !["serve"].reply =
                     IF w.done
                       THEN answerAddrs(setFlags(SetReply(NoReply), Authoritative),
                                        walked(w), TypeA)
                       ELSE @]
      /\ UNCHANGED <<Zones, Authoritative, stopped, req, reply, ret, call, hosts, mu>>

\* s.Log.Printf and w.WriteMsg(reply) have returned; the deferred
\* s.mu.RUnlock() runs.
SRUnlock ==
  /\ th["serve"].pc = "WriteMsg"
  /\ mu' = [mu EXCEPT !.readers = @ - 1]
  /\ th' = [th EXCEPT !["serve"].pc = "done", !["serve"].holds = FALSE]
  /\ UNCHANGED <<Zones, Authoritative, stopped, req, reply, ret, call, hosts>>

\* Resolver().LookupHost, one read of the store; the Resolver has no lock.
LHop ==
  LET w == hop(Zones, th["lookup"].w, "A")
  IN  /\ th["lookup"].pc \in {"start", "walk"}
      /\ th' = [th EXCEPT
                  !["lookup"].w = w,
                  !["lookup"].bare = @ \/ ~th["lookup"].holds,
                  !["lookup"].pc = IF w.done THEN "done" ELSE "walk"]
      /\ UNCHANGED <<Zones, Authoritative, stopped, req, reply, ret, call, hosts, mu>>

\* A read of the map while a writer is inside AppendRR, RemoveRR or Reset
\* is a data race: the runtime may stop the program.
LRace ==
  /\ th["lookup"].pc \in {"start", "walk"}
  /\ mu.writer
  /\ th' = [th EXCEPT !["lookup"].pc = "fatal", !["lookup"].bare = TRUE]
  /\ UNCHANGED <<Zones, Authoritative, stopped, req, reply, ret, call, hosts, mu>>

NextLock ==
  \/ \E t \in Writers : WLock(t)
  \/ \E t \in Writers : WRead(t)
  \/ \E t \in Writers : WWrite(t)
  \/ \E t \in Writers : WUnlock(t)
  \/ SRLock
  \/ SHop
  \/ SRUnlock
  \/ LHop
  \/ LRace

SpecLock == InitLock /\ [][NextLock]_vars

(***************************************************************************)
(* Long TXT values: a server constructed with one TXT value of every       *)
(* length up to MaxTxtLen, asked for it over the wire.                     *)
(***************************************************************************)
MaxTxtLen == 511

TxtChars == <<"a", "b", "c", "d">>

\* A text of n characters that differ from position to position.
TxtOfLen(n) == [i \in 1..n |-> TxtChars[(i % Len(TxtChars)) + 1]]

TxtQuery == [Opcode |-> OpcodeQuery, Question |-> Question(nEx, TypeTXT, ClassINET)]

InitTxt ==
  /\ \E n \in 0..MaxTxtLen :
       Zones = (nEx :> [ZeroZone EXCEPT !.TXT = <<TxtOfLen(n)>>])
  /\ Authoritative = TRUE
  /\ stopped = FALSE
  /\ req = NoMsg
  /\ reply = NoReply
  /\ ret = "none"
  /\ call = NoCall
  /\ hosts = NoHosts
  /\ mu = Unlocked
  /\ th = NoThreads

NextTxt ==
  \/ ServeDNS(TxtQuery)
  \/ Return

SpecTxt == InitTxt /\ [][NextTxt]_vars

TypeOK ==
  /\ Authoritative \in BOOLEAN
  /\ stopped \in BOOLEAN
  /\ reply.Kind \in {"none", "msg", "panic"}
  /\ ret \in {"none", "nil", "error", "conn", "dialerr", "panic"}
  /\ call \in {"none", "LookupHost", "AppendRR", "RemoveRR", "AddZone",
                 "Reset", "Close", "Dial"}
  /\ hosts.err.kind \in {"none", "nil", "notfound", "zone", "loop"}

(***************************************************************************)
(* Vocabulary of the properties: the store is read directly, hop by hop,   *)
(* and compared with the message that was written.                         *)
(***************************************************************************)
\* The last step served a standard query of the Internet class.
StdQuery ==
  /\ reply.Kind = "msg"
  /\ req.Opcode = OpcodeQuery
  /\ req.Question.Qclass = ClassINET

qtype == req.Question.Qtype

\* The queried name, case-folded and dot-terminated.
qkey == ToLower(Fqdn(req.Question.Name))

\* The types the server resolves through the CNAME-chain walk.
ChainTypes == {TypeA, TypeAAAA, TypeMX, TypeNS, TypeSRV, TypeTXT}

FieldOf(t) ==
  CASE t = TypeA -> "A"
    [] t = TypeAAAA -> "AAAA"
    [] t = TypeMX -> "MX"
    [] t = TypeNS -> "NS"
    [] t = TypeSRV -> "SRV"
    [] t = TypeTXT -> "TXT"
    [] t = TypePTR -> "PTR"

\* The names some zone of the store is an alias for.
AliasTargets == {Zones[n].CNAME : n \in DOMAIN Zones} \ {EmptyStr}

\* The candidate chains: sequences of alias targets, the empty one included.
HopSeqs == UNION {[1..k -> AliasTargets] : k \in 0..MaxHops}

\* c lists the alias targets met from start: every zone left behind is
\* present, has no Err, has no record of the field and names the next hop.
Hops(Z, start, c, field) ==
  \A i \in 1..Len(c) :
    LET prev == IF i = 1 THEN start ELSE c[i - 1]
    IN  /\ prev \in DOMAIN Z
        /\ ~Z[prev].Err
        /\ Z[prev].CNAME # EmptyStr
        /\ Z[prev].CNAME = c[i]
        /\ Len(Z[prev][field]) = 0

Terminal(start, c) == IF Len(c) = 0 THEN start ELSE c[Len(c)]

\* The walk stops at n with records, with nothing, or with the zone's Err.
Hit(Z, n, field) == n \in DOMAIN Z /\ ~Z[n].Err /\ Len(Z[n][field]) > 0

Miss(Z, n, field) ==
  \/ n \notin DOMAIN Z
  \/ ~Z[n].Err /\ Len(Z[n][field]) = 0 /\ Z[n].CNAME = EmptyStr

ErrAt(Z, n) == n \in DOMAIN Z /\ Z[n].Err

RECURSIVE Concat(_)
Concat(parts) == IF parts = <<>> THEN <<>> ELSE Head(parts) \o Concat(Tail(parts))

\* Record data d carries the stored value v of type t.
ValueMatches(t, d, v) ==
  CASE t = TypeA -> d = [IP |-> ParseIP(v)]
    [] t = TypeAAAA -> d = [IP |-> ParseIP(v)]
    [] t = TypeMX -> d = [Preference |-> v.Pref, Mx |-> v.Host]
    [] t = TypeNS -> d = [Ns |-> v.Host]
    [] t = TypeSRV -> d = [Priority |-> v.Priority, Port |-> v.Port,
                           Weight |-> v.Weight, Target |-> v.Target]
    [] t = TypeTXT -> Concat(d.Txt) = v
    [] t = TypePTR -> d = [Ptr |-> v]

\* The first Len(c) records of answer are CNAME records with targets c, in
\* order.
StartsWithChain(answer, c) ==
  /\ Len(answer) >= Len(c)
  /\ \A i \in 1..Len(c) :
       answer[i].Rrtype = TypeCNAME /\ answer[i].Data.Target = c[i]

\* answer is the chain c followed by exactly the values vals of type t.
AnswerIs(answer, c, t, vals) ==
  /\ StartsWithChain(answer, c)
  /\ Len(answer) = Len(c) + Len(vals)
  /\ \A j \in 1..Len(vals) :
       /\ answer[Len(c) + j].Rrtype = t
       /\ ValueMatches(t, answer[Len(c) + j].Data, vals[j])

(***************************************************************************)
(* Header flags                                                            *)
(***************************************************************************)
\* C1: every response ServeDNS writes, whatever its outcome, has the
\* Authoritative flag set exactly when the server was constructed as
\* authoritative.
C1_AuthoritativeFlag ==
  reply.Kind = "msg" => (reply.Authoritative <=> Authoritative)

\* C2: every response ServeDNS writes, whatever its outcome, has
\* RecursionAvailable clear on an authoritative server and set on a
\* non-authoritative one.
C2_RecursionAvailableFlag ==
  reply.Kind = "msg" => (reply.RecursionAvailable <=> ~Authoritative)

(***************************************************************************)
(* CNAME queries and CNAME chains                                          *)
(***************************************************************************)
\* C3: a CNAME query on a name whose zone has a CNAME is answered with
\* exactly one record, a CNAME whose target is that zone's own CNAME, even
\* when the target is itself an alias.
C3_CnameQueryNotFollowed ==
  (/\ StdQuery
   /\ qtype = TypeCNAME
   /\ qkey \in DOMAIN Zones
   /\ Zones[qkey].CNAME # EmptyStr)
  => /\ reply.Rcode = RcodeSuccess
     /\ Len(reply.Answer) = 1
     /\ reply.Answer[1].Rrtype = TypeCNAME
     /\ reply.Answer[1].Data.Target = Zones[qkey].CNAME

\* A CNAME query on the head of a two-hop chain was answered with the
\* first target only.
C3_Witness ==
  /\ StdQuery
  /\ qtype = TypeCNAME
  /\ qkey \in DOMAIN Zones
  /\ Zones[qkey].CNAME \in DOMAIN Zones
  /\ Zones[Zones[qkey].CNAME].CNAME # EmptyStr
  /\ Len(reply.Answer) = 1
  /\ reply.Answer[1].Data.Target = Zones[qkey].CNAME

\* The answer to a query of type t whose zone is an alias without records
\* of that type, and whose chain reaches a zone that has some: one CNAME
\* record per alias, in order, then exactly the records of the last zone.
ChainAnswered(t) ==
  \A c \in HopSeqs :
    (/\ Len(c) > 0
     /\ Hops(Zones, qkey, c, FieldOf(t))
     /\ Hit(Zones, Terminal(qkey, c), FieldOf(t)))
    => /\ reply.Rcode = RcodeSuccess
       /\ AnswerIs(reply.Answer, c, t, Zones[Terminal(qkey, c)][FieldOf(t)])

C5_OwnerNames ==
  (/\ StdQuery
   /\ qtype \in ChainTypes
   /\ reply.Rcode = RcodeSuccess
   /\ Len(reply.Answer) > 0
   /\ reply.Answer[1].Rrtype = TypeCNAME)
  => /\ reply.Answer[1].Name \in {qkey, req.Question.Name}
     /\ \A i \in 1..Len(reply.Answer) :
          reply.Answer[i].Rrtype # TypeCNAME =>
            \E j \in 1..(i - 1) :
              /\ reply.Answer[j].Rrtype = TypeCNAME
              /\ \A k \in (j + 1)..(i - 1) : reply.Answer[k].Rrtype # TypeCNAME
              /\ reply.Answer[i].Name = reply.Answer[j].Data.Target

(***************************************************************************)
(* Error responses                                                         *)
(***************************************************************************)
\* The shape of a not-found response whose lookup walked the aliases c.
NotFoundShape(c) ==
  /\ reply.Rcode = RcodeNameError
  /\ Len(reply.Ns) = 1
  /\ reply.Ns[1].Rrtype = TypeSOA
  /\ reply.Ns[1].Data = mkSOA(EmptyStr).Data
  /\ StartsWithChain(reply.Answer, c)
  /\ Len(reply.Answer) = Len(c)

\* C6: a lookup that ends in NotFound is answered NXDOMAIN with exactly
\* one synthesized SOA in the authority section and, in the answer
\* section, the CNAME records of every alias traversed before the miss.
C6_NotFoundResponse ==
  /\ (StdQuery /\ qtype \in ChainTypes) =>
       \A c \in HopSeqs :
         (/\ Hops(Zones, qkey, c, FieldOf(qtype))
          /\ Miss(Zones, Terminal(qkey, c), FieldOf(qtype)))
         => NotFoundShape(c)
  /\ (StdQuery /\ qtype = TypeCNAME /\ ZoneAt(Zones, qkey).CNAME = EmptyStr) =>
       NotFoundShape(<<>>)
  /\ (StdQuery /\ qtype \notin ChainTypes \cup {TypeCNAME, TypeSOA}
        /\ req.Question.Name \notin DOMAIN Zones) =>
       NotFoundShape(<<>>)
  /\ (reply.Kind = "msg" /\ reply.Rcode = RcodeNameError) =>
       /\ Len(reply.Ns) = 1
       /\ reply.Ns[1].Rrtype = TypeSOA
       /\ \A i \in 1..Len(reply.Answer) : reply.Answer[i].Rrtype = TypeCNAME

\* An alias whose target is missing was answered NXDOMAIN with the alias
\* in the answer section.
C6_Witness ==
  /\ StdQuery
  /\ qtype \in ChainTypes
  /\ reply.Rcode = RcodeNameError
  /\ Len(reply.Ns) = 1
  /\ Len(reply.Answer) = 1
  /\ reply.Answer[1].Data.Target \notin DOMAIN Zones

\* C7: a lookup that fails with a zone's configured Err, on the queried
\* name or behind CNAME hops, is answered SERVFAIL with empty answer and
\* authority sections.
C7_ServfailSectionsEmpty ==
  (StdQuery /\ qtype \in ChainTypes) =>
    \A c \in HopSeqs :
      (/\ Hops(Zones, qkey, c, FieldOf(qtype))
       /\ ErrAt(Zones, Terminal(qkey, c)))
      => /\ reply.Rcode = RcodeServerFailure
         /\ reply.Answer = <<>>
         /\ reply.Ns = <<>>

\* C8: a query of any record type (SOA aside) on a name whose zone has Err
\* set is answered SERVFAIL.
C8_ErrFailsEveryType ==
  (StdQuery /\ qtype # TypeSOA /\ ErrAt(Zones, qkey)) =>
    reply.Rcode = RcodeServerFailure

\* C9: a query of a supported type on a name that is absent, or whose zone
\* has neither records of that type nor a CNAME to follow, is answered
\* NXDOMAIN.
C9_EmptyIsNotFound ==
  (/\ StdQuery
   /\ qtype \in ChainTypes \cup {TypePTR, TypeCNAME}
   /\ \/ qkey \notin DOMAIN Zones
      \/ /\ ~Zones[qkey].Err
         /\ Zones[qkey].CNAME = EmptyStr
         /\ qtype # TypeCNAME => Len(Zones[qkey][FieldOf(qtype)]) = 0)
  => reply.Rcode = RcodeNameError

\* C10: a query of a type without a case of its own is answered with
\* exactly the zone's Misc records of that type code, and NXDOMAIN when
\* the zone is absent or holds no Misc record of that code.
C10_MiscOrNotFound ==
  (StdQuery /\ qtype \in {TypeTLSA, TypeSPF}) =>
    IF Len(MiscAt(ZoneAt(Zones, qkey), qtype)) > 0
      THEN reply.Rcode = RcodeSuccess
           /\ reply.Answer = MiscAt(ZoneAt(Zones, qkey), qtype)
      ELSE reply.Rcode = RcodeNameError

\* C11: an SOA query for any name, present in the store or not, is answered
\* NOERROR with exactly one record, the fixed placeholder SOA.
C11_SoaAlwaysPlaceholder ==
  (StdQuery /\ qtype = TypeSOA) =>
    /\ reply.Rcode = RcodeSuccess
    /\ Len(reply.Answer) = 1
    /\ reply.Answer[1].Rrtype = TypeSOA
    /\ reply.Answer[1].Data =
         [Ns |-> "localhost.", Mbox |-> "hostmaster.localhost.", Serial |-> 1,
          Refresh |-> 900, Retry |-> 900, Expire |-> 1800, Minttl |-> 60]

\* An SOA query for a name the store has no zone for was answered with the
\* placeholder.
C11_Witness ==
  /\ StdQuery
  /\ qtype = TypeSOA
  /\ qkey \notin DOMAIN Zones
  /\ Zones # <<>>
  /\ reply.Rcode = RcodeSuccess
  /\ Len(reply.Answer) = 1

C13_NonQueryRefused ==
  (reply.Kind = "msg" /\ req.Opcode # OpcodeQuery) =>
    /\ reply.Rcode = RcodeRefused
    /\ reply.Answer = <<>>
    /\ reply.Ns = <<>>
    /\ \A Z \in Seeds : Respond(Z, Authoritative, req) = reply

\* A NOTIFY message for a name and type the store has records of was
\* answered REFUSED.
C13_Witness ==
  /\ reply.Kind = "msg"
  /\ req.Opcode = OpcodeNotify
  /\ qkey \in DOMAIN Zones
  /\ qtype \in ChainTypes
  /\ Len(Zones[qkey][FieldOf(qtype)]) > 0
  /\ reply.Rcode = RcodeRefused

(***************************************************************************)
(* Combined-family address lookup                                          *)
(***************************************************************************)
\* The walk for one family from start ends in a zone with records of it, or
\* ends with nothing.
FamilyHit(Z, start, field) ==
  \E c \in HopSeqs : Hops(Z, start, c, field) /\ Hit(Z, Terminal(start, c), field)

FamilyMiss(Z, start, field) ==
  \E c \in HopSeqs : Hops(Z, start, c, field) /\ Miss(Z, Terminal(start, c), field)

FamilyVals(Z, start, field) ==
  IF FamilyHit(Z, start, field)
    THEN Z[Terminal(start, CHOOSE c \in HopSeqs :
                      Hops(Z, start, c, field)
                      /\ Hit(Z, Terminal(start, c), field))][field]
    ELSE <<>>

SeqRange(s) == {s[i] : i \in 1..Len(s)}

\* What LookupHost(host) must have returned in result h.
CombinedResult(Z, host, h) ==
  LET key == ToLower(Fqdn(host))
      a == FamilyVals(Z, key, "A")
      aaaa == FamilyVals(Z, key, "AAAA")
  IN  (\A f \in {"A", "AAAA"} : FamilyHit(Z, key, f) \/ FamilyMiss(Z, key, f)) =>
        IF Len(a) = 0 /\ Len(aaaa) = 0
          THEN h.err.kind = "notfound" /\ h.addrs = <<>>
          ELSE /\ h.err.kind = "nil"
               /\ Len(h.addrs) = Len(a) + Len(aaaa)
               /\ SeqRange(h.addrs) = SeqRange(a) \cup SeqRange(aaaa)

\* C14: a combined-family lookup of a name returns the A and the AAAA
\* addresses found for it together, succeeds with one family's addresses
\* when only that family has any, and fails with NotFound exactly when
\* neither family has records.
C14_CombinedLookup ==
  [][\A host \in MutationNames :
       LookupHostCall(host) => CombinedResult(Zones, host, hosts')]_vars

\* A LookupHost returned the addresses of both families of one zone.
C14_Witness ==
  /\ call = "LookupHost"
  /\ hosts.err.kind = "nil"
  /\ \E n \in DOMAIN Zones :
       /\ Len(Zones[n].A) > 0
       /\ Len(Zones[n].AAAA) > 0
       /\ hosts.addrs = Zones[n].A \o Zones[n].AAAA

(***************************************************************************)
(* Mutation calls                                                          *)
(***************************************************************************)
MultiTypes == {TypeA, TypeAAAA, TypeTXT, TypePTR, TypeMX, TypeNS, TypeSRV}

ZoneFields == {"Err", "A", "AAAA", "TXT", "PTR", "CNAME", "MX", "NS", "SRV", "Misc"}

\* The decimal text of a natural number.
RECURSIVE Itoa(_)
Itoa(n) == IF n < 10 THEN <<Digits[n + 1]>> ELSE Itoa(n \div 10) \o <<Digits[(n % 10) + 1]>>

\* v is the value that the text rrData of a record of type rrType denotes.
Denotes(rrType, rrData, v) ==
  CASE rrType \in {TypeA, TypeAAAA, TypeTXT, TypePTR} -> v = rrData
    [] rrType = TypeNS -> v = [Host |-> rrData]
    [] rrType = TypeMX ->
         LET p == SplitN(rrData, 2)
         IN  Len(p) = 2 /\ v.Host = p[2] /\ Itoa(v.Pref) = p[1]
    [] rrType = TypeSRV ->
         LET p == SplitN(rrData, 4)
         IN  /\ Len(p) = 4
             /\ Itoa(v.Priority) = p[1]
             /\ Itoa(v.Weight) = p[2]
             /\ Itoa(v.Port) = p[3]
             /\ v.Target = p[4]
    [] OTHER -> FALSE

\* The zone a caller's spelling of a name stands for.
NameKey(name) == ToLower(Fqdn(name))

\* The message a standard query of type t for name gets from store Z.
Ask(Z, name, t) ==
  Respond(Z, Authoritative,
          [Opcode |-> OpcodeQuery, Question |-> Question(Fqdn(name), t, ClassINET)])

\* A query of type t for name is answered from store Z with exactly the
\* records zone holds of that type.
LookupReturns(Z, name, t, zone) ==
  /\ Ask(Z, name, t).Rcode = RcodeSuccess
  /\ IF t = TypeCNAME
       THEN /\ Len(Ask(Z, name, t).Answer) = 1
            /\ Ask(Z, name, t).Answer[1].Rrtype = TypeCNAME
            /\ Ask(Z, name, t).Answer[1].Data.Target = zone.CNAME
       ELSE AnswerIs(Ask(Z, name, t).Answer, <<>>, t, zone[FieldOf(t)])

\* One successful AppendRR(name, rrType, rrData): the field of the type has
\* the value after those it had, the CNAME field has the new target, every
\* other field is as it was, and a lookup of the type returns the field.
AppendsInOrder(name, rrType, rrData) ==
  LET old == ZoneAt(Zones, NameKey(name))
      new == ZoneAt(Zones', NameKey(name))
      field == IF rrType = TypeCNAME THEN "CNAME" ELSE FieldOf(rrType)
  IN  (AppendRRStep(name, rrType, rrData) /\ ret' = "nil") =>
        /\ rrType \in MultiTypes =>
             /\ Len(new[field]) = Len(old[field]) + 1
             /\ SubSeq(new[field], 1, Len(old[field])) = old[field]
             /\ Denotes(rrType, rrData, new[field][Len(new[field])])
        /\ rrType = TypeCNAME => new.CNAME = rrData
        /\ \A g \in ZoneFields \ {field} : new[g] = old[g]
        /\ LookupReturns(Zones', name, rrType, new)

\* C15: successful AppendRR calls on a name leave each multi-valued field
\* with exactly the values appended for its type, in call order, and the
\* CNAME field with the last target; a lookup returns those values.
C15_AppendKeepsOrder ==
  [][\A name \in StoreNames, rrType \in MutationTypes :
       \A rrData \in StoreDataFor(rrType) :
         AppendsInOrder(name, rrType, rrData)]_vars

\* s is the decimal text of an integer in 0..65535.
IsUint16Text(s) ==
  /\ Len(s) > 0
  /\ \A i \in 1..Len(s) : IsDigit(s[i])
  /\ DigitsVal(s) < Uint16

\* rrData has the form of an MX ("<preference> <host>") or SRV
\* ("<priority> <weight> <port> <target>") text with 16-bit numbers.
WellFormed(rrType, rrData) ==
  LET n == IF rrType = TypeMX THEN 2 ELSE 4
      p == SplitN(rrData, n)
  IN  Len(p) = n /\ \A i \in 1..(n - 1) : IsUint16Text(p[i])

\* One AppendRR(name, rrType, rrData) of an MX or SRV text: a text that is
\* not well formed gets an error and changes nothing, and a record that is
\* stored has the numbers written in the text.
ParsesOrRejects(name, rrType, rrData) ==
  LET field == FieldOf(rrType)
      new == ZoneAt(Zones', keyOf(name))
  IN  AppendRRStep(name, rrType, rrData) =>
        /\ ~WellFormed(rrType, rrData) => (ret' = "error" /\ Zones' = Zones)
        /\ ret' = "nil" =>
             /\ Len(new[field]) > 0
             /\ Denotes(rrType, rrData, new[field][Len(new[field])])

\* C16: AppendRR of an MX or SRV text that is malformed, or has a numeric
\* field outside 0..65535, returns an error and stores nothing; a stored
\* record never has a number other than the one written in the text.
C16_NumbersFitOrRejected ==
  [][\A name \in StoreNames, rrType \in {TypeMX, TypeSRV} :
       \A rrData \in StoreDataFor(rrType) :
         ParsesOrRejects(name, rrType, rrData)]_vars

\* Every key of the store is a lowercase, dot-terminated name.
KeysNormalized == \A n \in DOMAIN Zones : n = ToLower(Fqdn(n))

\* A step changed no entry but that of key.
OnlyEntryTouched(key) ==
  \A n \in (DOMAIN Zones \cup DOMAIN Zones') \ {key} :
    n \in DOMAIN Zones /\ n \in DOMAIN Zones' /\ Zones'[n] = Zones[n]

\* A mutation call with name acts on the entry of the normalized name, and
\* a record added is found by a lookup of the name as it was given.
ActsOnNormalizedName(name, rrType) ==
  /\ RemoveRR(name, rrType) => OnlyEntryTouched(NameKey(name))
  /\ \A rrData \in StoreDataFor(rrType) :
       (AppendRRStep(name, rrType, rrData) /\ ret' = "nil") =>
         /\ OnlyEntryTouched(NameKey(name))
         /\ Ask(Zones', name, rrType).Rcode = RcodeSuccess
         /\ Len(Ask(Zones', name, rrType).Answer) > 0

\* C17: AppendRR and RemoveRR normalize the name to a lowercase,
\* dot-terminated FQDN: every key they create is normalized, spellings that
\* differ in case or in the trailing dot act on one entry, and a record
\* added under any spelling is found by a lookup of that name.
C17_MutationNormalizesName ==
  /\ []KeysNormalized
  /\ [][\A name \in StoreNames, rrType \in MutationTypes :
          ActsOnNormalizedName(name, rrType)]_vars

\* zone has records of type rrType and of no other type.
OnlyType(zone, rrType) ==
  LET field == IF rrType = TypeCNAME THEN "CNAME" ELSE FieldOf(rrType)
  IN  /\ rrType \in MultiTypes \cup {TypeCNAME}
      /\ \A g \in ZoneFields \ {"Err", "Misc"} :
           (zone[g] # <<>>) <=> (g = field)
      /\ DOMAIN zone.Misc = {}

\* One RemoveRR(name, rrType) on a zone whose only records are of that
\* type: the entry is gone and a query of any type for the name is
\* answered NXDOMAIN (SOA aside, which is never looked up in the store).
RemovesLastType(name, rrType) ==
  (/\ RemoveRR(name, rrType)
   /\ keyOf(name) \in DOMAIN Zones
   /\ OnlyType(Zones[keyOf(name)], rrType)) =>
    /\ keyOf(name) \notin DOMAIN Zones'
    /\ \A t \in QueryTypes \ {TypeSOA} :
         Ask(Zones', name, t).Rcode = RcodeNameError

\* C18: when RemoveRR(name, T) removes the only record type of a zone, the
\* store has no entry for the name afterwards and a lookup of the name, of
\* any type, is NotFound (as long as the store stays as the call left it).
C18_RemoveLastTypeIsNotFound ==
  [][\A name \in StoreNames, rrType \in MutationTypes :
       RemovesLastType(name, rrType)]_vars

\* No entry of the store is a zone with every field empty.
NoEmptyZone == \A n \in DOMAIN Zones : Zones[n] # ZeroZone

\* A RemoveRR(name, rrType) that deleted the entry of the name left nothing
\* behind: every field but the one it cleared, Err included, was empty.
DeletesOnlyEmpty(name, rrType) ==
  (/\ RemoveRR(name, rrType)
   /\ keyOf(name) \in DOMAIN Zones
   /\ keyOf(name) \notin DOMAIN Zones') =>
    \A g \in ZoneFields :
      \/ Zones[keyOf(name)][g] = ZeroZone[g]
      \/ rrType \in MultiTypes /\ g = FieldOf(rrType)
      \/ rrType = TypeCNAME /\ g = "CNAME"

\* C19: in every reachable state no entry of the store is a zone with
\* every field empty, and RemoveRR deletes an entry only when every field
\* of the zone, Err included, is empty.
C19_NoEmptyZoneKept ==
  /\ []NoEmptyZone
  /\ [][\A name \in MutationNames, rrType \in MutationTypes :
          DeletesOnlyEmpty(name, rrType)]_vars

\* One AddZone(name, zone): on a name that has an entry it returns an error
\* and the store, and so the answer to a query for the name, is as before;
\* on a name without one the zone becomes the entry and its records are
\* what a query for the name returns.
AddsOrRejects(name, zone) ==
  AddZone(name, zone) =>
    IF NameKey(name) \in DOMAIN Zones
      THEN /\ ret' = "error"
           /\ Zones' = Zones
           /\ \A t \in QueryTypes : Ask(Zones', name, t) = Ask(Zones, name, t)
      ELSE /\ ret' = "nil"
           /\ NameKey(name) \in DOMAIN Zones'
           /\ Zones'[NameKey(name)] = zone
           /\ OnlyEntryTouched(NameKey(name))
           /\ zone.CNAME # EmptyStr => LookupReturns(Zones', name, TypeCNAME, zone)
           /\ Len(zone.A) > 0 => LookupReturns(Zones', name, TypeA, zone)

\* C20: AddZone on a name already in the store returns an error and leaves
\* the store unchanged, so the old zone still resolves and nothing of the
\* rejected zone does; on an absent name it adds the zone, which resolves.
C20_AddZoneRejectsExisting ==
  [][\A name \in ZoneNames, zone \in NewZones : AddsOrRejects(name, zone)]_vars

\* An AddZone on a name that had a zone with records returned an error.
C20_Witness ==
  /\ call = "AddZone"
  /\ ret = "error"
  /\ \E n \in ZoneNames : n \in DOMAIN Zones /\ ~isZoneEmpty(Zones[n])

(***************************************************************************)
(* Concurrent callers                                                      *)
(***************************************************************************)
\* Both writers have returned from calls that add: to distinct names, or
\* records of a multi-valued type to one name.
AddsReturned ==
  /\ \A t \in Writers : th[t].pc = "done" /\ th[t].call \in AddCalls
  /\ \/ NameKey(th["w1"].call.name) # NameKey(th["w2"].call.name)
     \/ \A t \in Writers : th[t].call.op = "AppendRR"

\* The writers that appended a record of c's type to c's name.
Appenders(c) ==
  {u \in Writers : /\ th[u].call.op = "AppendRR"
                   /\ NameKey(th[u].call.name) = NameKey(c.name)
                   /\ th[u].call.rrType = c.rrType}

\* The effect of call c is in the store and a query returns it.
EffectKept(c) ==
  LET key == NameKey(c.name)
  IN  /\ key \in DOMAIN Zones
      /\ IF c.op = "AddZone"
           THEN /\ Zones[key] = c.zone
                /\ LookupReturns(Zones, c.name, TypeA, c.zone)
           ELSE /\ \E i \in 1..Len(Zones[key][FieldOf(c.rrType)]) :
                     Zones[key][FieldOf(c.rrType)][i] = c.rrData
                /\ Len(Zones[key][FieldOf(c.rrType)]) =
                     Len(ZoneAt(SeedLock, key)[FieldOf(c.rrType)])
                     + Cardinality(Appenders(c))
                /\ LookupReturns(Zones, c.name, c.rrType, Zones[key])

\* C21: once concurrent adding calls (AddZone or AppendRR for distinct
\* names, AppendRR of a multi-valued type for one name) have all returned,
\* each returned without error, the store holds what each of them added, a
\* query returns it, and no update is lost.
C21_NoLostUpdate ==
  AddsReturned =>
    \A t \in Writers : th[t].ret = "nil" /\ EffectKept(th[t].call)

\* Two AppendRR calls for one name and one type have returned and the field
\* holds both values.
C21_Witness ==
  /\ AddsReturned
  /\ th["w1"].call.op = "AppendRR"
  /\ th["w2"].call.op = "AppendRR"
  /\ th["w1"].call.name = th["w2"].call.name
  /\ th["w1"].call.rrData # th["w2"].call.rrData
  /\ Len(Zones[NameKey(th["w1"].call.name)].TXT) = 2

\* No lookup has read the store without holding the read lock.
LockedReads == \A t \in Readers : ~th[t].bare

\* No read of the store has run into a write of it.
NoReadDuringWrite == \A t \in Readers : th[t].pc # "fatal"

\* A lookup that is over returns what the walk returns on the store as it
\* stood at one instant.
OneInstant ==
  \A t \in Readers :
    th[t].pc \in {"WriteMsg", "done"} =>
      \E Z \in th[t].snaps :
        walked(th[t].w) = walk(Z, NameKey(th[t].name), <<>>, {NameKey(th[t].name)}, "A")

\* C22: a lookup that runs beside AppendRR, RemoveRR or Reset, on the wire
\* or through Server.Resolver(), reads the store only under the read lock,
\* held for the whole walk; no read overlaps a write, and the result is
\* that of one instant of the store.
C22_LookupsHoldReadLock == LockedReads /\ NoReadDuringWrite /\ OneInstant

\* C25: ServeDNS logs and writes the response only after it has released
\* the read lock, so a mutation call never waits on a response being
\* written.
C25_NoIoUnderLock ==
  th["serve"].pc = "WriteMsg" =>
    /\ ~th["serve"].holds
    /\ mu.readers = 0
    /\ (\A t \in Writers : th[t].pc \notin {"locked", "read", "written"}) => CanLock(mu)

(***************************************************************************)
(* After Close                                                             *)
(***************************************************************************)

StaysStopped == stopped => stopped'

DialFailsAtOnce ==
  \A network \in Networks : Dial(network) /\ stopped => ret' = "error"

CloseKeepsStore ==
  Close => /\ Zones' = Zones
           /\ \A host \in MutationNames :
                LookupHost(Zones', host) = LookupHost(Zones, host)

\* C23: once Close has returned the server stays stopped, every Dial of a
\* patched resolver returns the error at once without attempting a
\* connection, and Close leaves the store as it was, so in-process lookups
\* return what they returned before.
C23_ClosedForGood ==
  [][StaysStopped /\ DialFailsAtOnce /\ CloseKeepsStore]_vars

C23_Witness == stopped /\ call = "Dial" /\ ret = "error"

(***************************************************************************)
(* After Reset                                                             *)
(***************************************************************************)

\* Every lookup of the store Z is NotFound: on the wire (SOA queries are
\* answered without a lookup) and in-process.
AllNotFound(Z) ==
  /\ \A name \in QueryNames, t \in QueryTypes \ {TypeSOA} :
       /\ Ask(Z, name, t).Rcode = RcodeNameError
       /\ Ask(Z, name, t).Answer = <<>>
  /\ \A host \in MutationNames : LookupHost(Z, host).err.kind = "notfound"

ResetEmpties == Reset => Zones' = <<>> /\ AllNotFound(Zones')

FailedAppendKeepsStore ==
  (call' = "AppendRR" /\ ret' = "error") =>
    \A name \in MutationNames, rrType \in MutationTypes :
      \A rrData \in RRDataFor(rrType) :
        AppendRRStep(name, rrType, rrData) => Zones' = Zones

\* C29: when AppendRR returns an error the store is exactly as it was
\* before the call: no entry is created and no field of a zone changes.
C29_FailedAppendIsNoOp == [][FailedAppendKeepsStore]_vars

C29_Witness == call = "AppendRR" /\ ret = "error" /\ Zones # <<>>

(***************************************************************************)
(* Letter case of the queried name                                         *)
(***************************************************************************)

\* The data of the answer records, owner names left out.
AnswerData(msg) == [i \in DOMAIN msg.Answer |-> msg.Answer[i].Data]

SameOutcome(a, b) ==
  /\ a.Kind = b.Kind
  /\ a.Kind = "msg" => a.Rcode = b.Rcode /\ AnswerData(a) = AnswerData(b)

FoldedQuery(m) == [m EXCEPT !.Question.Name = ToLower(Fqdn(@))]

\* C27: a wire query gets the response code and the answer data of the
\* query whose name is its case-folded form, for every query type, PTR and
\* the types served from Misc included.
C27_CaseFoldedQueries ==
  [][\A m \in Queries :
       ServeDNS(m) =>
         SameOutcome(reply', Respond(Zones, Authoritative, FoldedQuery(m)))]_vars

(***************************************************************************)
(* The owner name of the NXDOMAIN authority record                         *)
(***************************************************************************)

IsAlias(rr) == rr.Rrtype = TypeCNAME

\* The last name a lookup consulted, read off the response: the target of
\* the last alias it followed, or the normalized queried name when it
\* followed none.
LastConsulted(m, msg) ==
  LET aliases == SelectSeq(msg.Answer, IsAlias)
  IN  IF aliases = <<>> THEN ToLower(Fqdn(m.Question.Name))
      ELSE aliases[Len(aliases)].Data.Target

\* C26: in every NXDOMAIN response the authority section is one SOA record
\* whose owner name is the last name the lookup consulted.
C26_SoaOwnerIsLastConsulted ==
  [][\A m \in Queries :
       (ServeDNS(m) /\ reply'.Kind = "msg" /\ reply'.Rcode = RcodeNameError) =>
         /\ Len(reply'.Ns) = 1
         /\ reply'.Ns[1].Rrtype = TypeSOA
         /\ reply'.Ns[1].Name = LastConsulted(m, reply')]_vars

(***************************************************************************)
(* Chunking of TXT values                                                  *)
(***************************************************************************)

\* ceil(n / maxLen), and one for the empty text.
ChunkCount(n) == IF n = 0 THEN 1 ELSE (n + maxLen - 1) \div maxLen

\* parts is the reference chunking of s.
IsChunking(parts, s) ==
  /\ Len(parts) = ChunkCount(Len(s))
  /\ \A k \in 1..Len(parts) :
       /\ Len(parts[k]) <= maxLen
       /\ k < Len(parts) => Len(parts[k]) = maxLen
       /\ s # <<>> => parts[k] # <<>>
  /\ Concat(parts) = s

\* C28: the segments of a TXT record in a response are the reference
\* chunking of the stored value: ceil(len / 255) segments, each of at most
\* 255 bytes and all but the last of exactly 255, none empty unless the
\* value is empty, and their concatenation is the value.
C28_SplitTXTIsChunking ==
  (req = TxtQuery /\ reply.Kind = "msg" /\ nEx \in DOMAIN Zones
     /\ Len(Zones[nEx].TXT) = 1 /\ Len(reply.Answer) = 1) =>
    IsChunking(reply.Answer[1].Data.Txt, Zones[nEx].TXT[1])

====
